---- MODULE Spec2Model ----
(***************************************************************************)
(* Model of create_program_skeleton() / clCreateProgramWithBinary()        *)
(* (lib/CL/clCreateProgramWithBinary.c).  One call of the function is one  *)
(* behaviour: Init fixes the build configuration and the caller's          *)
(* arguments, the actions are the consecutive stages of the function body, *)
(* and the outcomes of the collaborators (allocator, cache, converter,     *)
(* packed-binary reader) are chosen nondeterministically where they are    *)
(* called.                                                                 *)
(***************************************************************************)
EXTENDS Integers, Sequences, FiniteSets, TLC

VARIABLES build, context, caller_devices, caller_num_devices, lengths, binaries, binary_status,
          errcode_ret, allow_empty_binaries,
          pc, i, errcode, num_devices, device_list, unique_devlist, program,
          heap, context_refs, ret, trace

vars == <<build, context, caller_devices, caller_num_devices, lengths, binaries, binary_status,
          errcode_ret, allow_empty_binaries,
          pc, i, errcode, num_devices, device_list, unique_devlist, program,
          heap, context_refs, ret, trace>>

args == <<build, context, caller_devices, caller_num_devices, lengths,
          binaries,
          allow_empty_binaries>>

(***************************************************************************)
(* Bounds.                                                                 *)
(***************************************************************************)
\* longest device list (and lengths / binaries / status array) a caller passes
MaxDevices == 2

(***************************************************************************)
(* Values.                                                                 *)
(***************************************************************************)
NULL == "NULL"
UNINIT == "uninit"

CL_SUCCESS == "CL_SUCCESS"
CL_INVALID_CONTEXT == "CL_INVALID_CONTEXT"
CL_INVALID_VALUE == "CL_INVALID_VALUE"
CL_INVALID_DEVICE == "CL_INVALID_DEVICE"
CL_INVALID_BINARY == "CL_INVALID_BINARY"
CL_OUT_OF_HOST_MEMORY == "CL_OUT_OF_HOST_MEMORY"
CL_BUILD_PROGRAM_FAILURE == "CL_BUILD_PROGRAM_FAILURE"
CL_BUILD_NONE == "CL_BUILD_NONE"
CL_PROGRAM_BINARY_TYPE_NONE == "CL_PROGRAM_BINARY_TYPE_NONE"

\* A C array pointer: NULL, or the elements it points to.
NullPtr == [null |-> TRUE, elems |-> <<>>]
Arr(s) == [null |-> FALSE, elems |-> s]
\* element idx (0-based, as in the C code) of array pointer p
At(p, idx) == p.elems[idx + 1]
Put(p, idx, v) == [p EXCEPT !.elems[idx + 1] = v]
Zeroed(n, z) == Arr([k \in 1..n |-> z])

\* Heap blocks are <<owner, index>>; index -1 for a block that is not per device.
Blk(name) == <<name, -1>>

(***************************************************************************)
(* Devices.  The context owns the root devices R1 and R2; S1 is a          *)
(* sub-device of R1; F is a root device of no context.  R1 advertises      *)
(* cl_khr_spir, R2 does not.                                               *)
(***************************************************************************)
ContextDevices == <<"R1", "R2">>
Devices == {"R1", "R2", "S1", "F"}
HasSpirExtension(d) == d = "R1"

\* POCL_REAL_DEV: the root device a (sub-)device belongs to.
RealDev(d) == IF d = "S1" THEN "R1" ELSE d

Range(s) == {s[k] : k \in 1..Len(s)}

RECURSIVE Dedup(_)
Dedup(s) ==
  IF s = <<>> THEN <<>>
  ELSE LET r == Dedup(SubSeq(s, 1, Len(s) - 1))
           d == s[Len(s)]
       IN IF d \in Range(r) THEN r ELSE Append(r, d)

\* pocl_unique_device_list: sub-devices replaced by their root devices,
\* duplicates removed (first occurrence kept).
UniqueDeviceList(list) == Dedup([k \in 1..Len(list) |-> RealDev(list[k])])

(***************************************************************************)
(* Build configurations: the preprocessor switches the function body tests *)
(* (OCS_AVAILABLE, ENABLE_SPIRV) and whether assert() is compiled in.      *)
(***************************************************************************)
Builds ==
  { [OCS_AVAILABLE |-> FALSE, ENABLE_SPIRV |-> FALSE, NDEBUG |-> FALSE],
    [OCS_AVAILABLE |-> TRUE,  ENABLE_SPIRV |-> FALSE, NDEBUG |-> FALSE],
    [OCS_AVAILABLE |-> TRUE,  ENABLE_SPIRV |-> TRUE,  NDEBUG |-> FALSE],
    [OCS_AVAILABLE |-> TRUE,  ENABLE_SPIRV |-> TRUE,  NDEBUG |-> TRUE] }

(***************************************************************************)
(* Blobs.  A blob is described by what the three format checks of the loop *)
(* answer for it: bc (its first two bytes are "BC"), spirv (what           *)
(* bitcode_is_spirv finds: not SPIR-V, SPIR-V in Kernel mode, SPIR-V of    *)
(* another execution model), packed (the devices pocl_binary_check_binary  *)
(* accepts it for).  id is the position of the blob in the caller's        *)
(* array, so that a copy can be traced back to it; id 0 is a NULL blob.    *)
(***************************************************************************)
BlobKinds ==
  { [bc |-> TRUE,  spirv |-> "no",     packed |-> {}],
    [bc |-> TRUE,  spirv |-> "kernel", packed |-> {"R1", "R2"}],
    [bc |-> FALSE, spirv |-> "kernel", packed |-> {}],
    [bc |-> FALSE, spirv |-> "other",  packed |-> {}],
    [bc |-> FALSE, spirv |-> "kernel", packed |-> {"R1", "R2"}],
    [bc |-> FALSE, spirv |-> "no",     packed |-> {"R1", "R2"}],
    [bc |-> FALSE, spirv |-> "no",     packed |-> {"R1"}],
    [bc |-> FALSE, spirv |-> "no",     packed |-> {}] }

NativeBlob == [bc |-> TRUE, spirv |-> "no", packed |-> {}]
UnknownBlob == [bc |-> FALSE, spirv |-> "no", packed |-> {}]
NullBlob == [id |-> 0, bc |-> FALSE, spirv |-> "no", packed |-> {}]
BlobAt(j, kind) == [id |-> j, bc |-> kind.bc, spirv |-> kind.spirv,
                    packed |-> kind.packed]
\* the length the caller gives for the blob at position j (1-based)
SizeAt(j) == j + 1

\* !strncmp ((const char *)binaries[i], "BC", 2)
HasBCMarker(b) == b.bc
\* bitcode_is_spirv (binaries[i], lengths[i], &is_spirv_opencl)
BitcodeIsSpirv(b) == b.spirv # "no"
IsSpirvOpenCL(b) == b.spirv = "kernel"
\* pocl_binary_check_binary (device_list[i], binaries[i])
PoclBinaryCheckBinary(dev, b) == dev \in b.packed

(***************************************************************************)
(* The caller's arguments.                                                 *)
(***************************************************************************)
CallerLists == UNION {[1..n -> Devices] : n \in 0..MaxDevices}

\* device lists that pass the duplicate check and the membership check
Accepted(l) ==
  /\ l # <<>>
  /\ \A d \in Range(ContextDevices) :
       Cardinality({k \in 1..Len(l) : l[k] = d}) <= 1
  /\ \A k \in 1..Len(l) : RealDev(l[k]) \in Range(ContextDevices)
AcceptedLists == {l \in CallerLists : Accepted(l)}
\* accepted lists with one entry more: with two context devices they name a
\* sub-device beside the roots, so the resolved list is shorter
LongAcceptedLists == {l \in [1..(MaxDevices + 1) -> Devices] : Accepted(l)}

\* lengths arrays with at most one zero entry
LengthShapes(n) ==
  {[j \in 1..n |-> IF j = z THEN 0 ELSE SizeAt(j)] : z \in 0..n}
\* binaries arrays of native blobs with at most one NULL entry
BinaryShapes(n) ==
  {[j \in 1..n |-> IF j = z THEN NullBlob ELSE BlobAt(j, NativeBlob)] :
     z \in 0..n}
\* binaries arrays of any kinds of blobs
BinaryContents(n) ==
  {[j \in 1..n |-> BlobAt(j, k[j])] : k \in [1..n -> BlobKinds]}

\* What a per-device slot of program->binaries / program->pocl_binaries
\* points to: nothing, or a buffer filled from blob id of the caller
\* ("copy"), from the converter's output for it ("converted"), from the
\* cached program.bc ("cached"), or an indeterminate pointer ("wild").
NullSlot == [src |-> "null", id |-> 0]
Slot(src, id) == [src |-> src, id |-> id]

\* struct _cl_program; ptr tells what the local variable program holds.
UninitProgram ==
  [ptr |-> UNINIT,
   binary_sizes |-> NullPtr, binaries |-> NullPtr, pocl_binaries |-> NullPtr,
   pocl_binary_sizes |-> NullPtr, build_log |-> NullPtr, llvm_irs |-> NullPtr,
   build_hash |-> NullPtr,
   context |-> NULL, num_devices |-> 0, devices |-> NullPtr,
   build_status |-> "0", binary_type |-> "0"]

\* the per-device arrays, in the order lines 106-119 allocate them
ArrayNames == <<"binary_sizes", "binaries", "pocl_binaries",
                "pocl_binary_sizes", "build_log", "llvm_irs", "build_hash">>

StartOfCall ==
  /\ pc = "validate"
  /\ i = 0
  /\ errcode = UNINIT
  /\ device_list = caller_devices
  /\ num_devices = caller_num_devices
  /\ unique_devlist = NullPtr
  /\ program = UninitProgram
  /\ heap = {}
  /\ context_refs = 1
  /\ ret = "pending"
  /\ trace = <<>>

\* Calls that exercise argument validation: every pointer argument may be
\* NULL, the device list is arbitrary, each array has at most one bad entry.
InitArgumentShapes ==
  /\ build = [OCS_AVAILABLE |-> TRUE, ENABLE_SPIRV |-> TRUE, NDEBUG |-> FALSE]
  /\ context \in {NULL, "ctx"}
  /\ allow_empty_binaries \in BOOLEAN
  /\ errcode_ret \in {NULL, "unwritten"}
  /\ \E n \in 0..MaxDevices :
       /\ caller_num_devices = n
       /\ caller_devices \in {NullPtr} \cup {Arr(l) : l \in [1..n -> Devices]}
       /\ lengths \in {NullPtr} \cup {Arr(l) : l \in LengthShapes(n)}
       /\ binaries \in {NullPtr} \cup {Arr(b) : b \in BinaryShapes(n)}
       /\ binary_status = Zeroed(n, "unset")
  /\ StartOfCall

\* Calls that pass argument validation: the blobs range over all kinds.
InitBlobContents ==
  /\ build \in Builds
  /\ context = "ctx"
  /\ allow_empty_binaries = FALSE
  /\ errcode_ret = "unwritten"
  /\ \E l \in AcceptedLists :
       /\ caller_devices = Arr(l)
       /\ caller_num_devices = Len(l)
       /\ lengths = Arr([j \in 1..Len(l) |-> SizeAt(j)])
       /\ binaries \in {Arr(b) : b \in BinaryContents(Len(l))}
       /\ binary_status = Zeroed(Len(l), "unset")
  /\ StartOfCall

\* Calls whose device list is shortened by the resolution: one blob per
\* entry of the caller's list, native or unrecognized, with and without a
\* status array.
InitShortenedLists ==
  /\ build = [OCS_AVAILABLE |-> TRUE, ENABLE_SPIRV |-> TRUE, NDEBUG |-> FALSE]
  /\ context = "ctx"
  /\ allow_empty_binaries = FALSE
  /\ errcode_ret = "unwritten"
  /\ \E l \in LongAcceptedLists :
       /\ caller_devices = Arr(l)
       /\ caller_num_devices = Len(l)
       /\ lengths = Arr([j \in 1..Len(l) |-> SizeAt(j)])
       /\ binaries \in
            {Arr([j \in 1..Len(l) |-> BlobAt(j, k[j])]) :
               k \in [1..Len(l) -> {NativeBlob, UnknownBlob}]}
       /\ binary_status \in {NullPtr, Zeroed(Len(l), "unset")}
  /\ StartOfCall

Init == InitArgumentShapes \/ InitBlobContents \/ InitShortenedLists

(***************************************************************************)
(* The function body.                                                      *)
(***************************************************************************)
Log(events) == trace' = trace \o events

\* POCL_GOTO_ERROR_COND / POCL_GOTO_ERROR_ON: set errcode and jump to the
\* label ERROR.  The macro names one label for all its uses, and the uses
\* before line 98 run while program is still uninitialized, so the label is
\* ERROR and not ERROR_CLEAN_PROGRAM_AND_BINARIES.
GotoError(code) ==
  /\ errcode' = code
  /\ pc' = "ERROR"

\* Lines 55-65: "ok", "invalid" (a zero length or a NULL blob was found) or
\* "null_read" (binaries[i] was read with binaries == NULL).
LengthsCheck ==
  IF allow_empty_binaries THEN "ok"
  ELSE IF lengths.null THEN "invalid"
  ELSE LET bad == {k \in 0..(num_devices - 1) :
                     \/ At(lengths, k) = 0
                     \/ binaries.null
                     \/ At(binaries, k).id = 0}
       IN IF bad = {} THEN "ok"
          ELSE LET k == CHOOSE x \in bad : \A y \in bad : x <= y
               IN IF At(lengths, k) # 0 /\ binaries.null
                  THEN "null_read" ELSE "invalid"

\* ArgCheck without the test of line 53.
ArgCheckNoCountTest ==
  IF context = NULL THEN CL_INVALID_CONTEXT
  ELSE IF device_list.null THEN CL_INVALID_VALUE
  ELSE "ok"

\* Lines 49-53: the error the first three tests raise, or "ok".
ArgCheck ==
  IF context = NULL THEN CL_INVALID_CONTEXT
  ELSE IF device_list.null THEN CL_INVALID_VALUE
  ELSE IF num_devices = 0 THEN CL_INVALID_VALUE
  ELSE "ok"

\* Lines 49-65.
ValidateArguments ==
  /\ pc = "validate"
  /\ IF ArgCheck # "ok"
     THEN GotoError(ArgCheck) /\ UNCHANGED trace
     ELSE IF LengthsCheck = "invalid"
     THEN GotoError(CL_INVALID_VALUE) /\ UNCHANGED trace
     ELSE IF LengthsCheck = "null_read"
     THEN \* a load through a NULL pointer: the process is killed, or the
          \* load yields some value and the entry is taken for a NULL blob
          /\ Log(<< <<"null_read", 0, "binaries">> >>)
          /\ \/ pc' = "crashed" /\ UNCHANGED errcode
             \/ GotoError(CL_INVALID_VALUE)
     ELSE pc' = "check_duplicates" /\ UNCHANGED <<errcode, trace>>
  /\ UNCHANGED <<args, binary_status, errcode_ret, i, num_devices,
                 device_list, unique_devlist, program, heap, context_refs,
                 ret>>

\* DuplicateFound with the test count > 2.
DuplicateFoundCountAboveTwo ==
  \E d \in Range(ContextDevices) :
    Cardinality({j \in 0..(num_devices - 1) : At(device_list, j) = d}) > 2

\* Lines 67-78: a device of the context named more than once in device_list.
DuplicateFound ==
  \E d \in Range(ContextDevices) :
    Cardinality({j \in 0..(num_devices - 1) : At(device_list, j) = d}) > 1

CheckDuplicates ==
  /\ pc = "check_duplicates"
  /\ IF DuplicateFound
     THEN GotoError(CL_INVALID_DEVICE)
     ELSE pc' = "resolve" /\ UNCHANGED errcode
  /\ UNCHANGED <<args, binary_status, errcode_ret, i, num_devices,
                 device_list, unique_devlist, program, heap, context_refs,
                 ret, trace>>

\* Lines 80-84.
ResolveDevices ==
  /\ pc = "resolve"
  /\ unique_devlist' = Arr(UniqueDeviceList(device_list.elems))
  /\ num_devices' = Len(unique_devlist'.elems)
  /\ device_list' = unique_devlist'
  /\ heap' = heap \cup {Blk("unique_devlist")}
  /\ Log(<< <<"alloc", -1, "unique_devlist">> >>)
  /\ pc' = "check_membership"
  /\ UNCHANGED <<args, binary_status, errcode_ret, i, errcode, program,
                 context_refs, ret>>

\* ForeignFound with the outer loop stopping after the first device.
ForeignFoundFirstOnly ==
  /\ num_devices > 0
  /\ At(device_list, 0) \notin Range(ContextDevices)

\* Lines 86-96: a resolved device that is not a device of the context.
ForeignFound ==
  \E k \in 0..(num_devices - 1) :
    At(device_list, k) \notin Range(ContextDevices)

CheckMembership ==
  /\ pc = "check_membership"
  /\ IF ForeignFound
     THEN GotoError(CL_INVALID_DEVICE)
     ELSE pc' = "alloc_program" /\ UNCHANGED errcode
  /\ UNCHANGED <<args, binary_status, errcode_ret, i, num_devices,
                 device_list, unique_devlist, program, heap, context_refs,
                 ret, trace>>

\* Lines 98-104.
AllocProgram ==
  /\ pc = "alloc_program"
  /\ \E ok \in BOOLEAN :
       IF ok
       THEN /\ program' = [UninitProgram EXCEPT !.ptr = "allocated"]
            /\ heap' = heap \cup {Blk("program")}
            /\ Log(<< <<"alloc", -1, "program">> >>)
            /\ pc' = "alloc_arrays"
            /\ UNCHANGED errcode
       ELSE /\ program' = [UninitProgram EXCEPT !.ptr = NULL]
            /\ Log(<< <<"alloc_failed", -1, "program">> >>)
            /\ errcode' = CL_OUT_OF_HOST_MEMORY
            /\ pc' = "ERROR"
            /\ UNCHANGED heap
  /\ UNCHANGED <<args, binary_status, errcode_ret, i, num_devices,
                 device_list, unique_devlist, context_refs, ret>>

\* Lines 106-123: the callocs are tried in order and the first failure (the
\* f-th, 0 for none) stops the chain.
AllocArrays ==
  /\ pc = "alloc_arrays"
  /\ \E f \in 0..Len(ArrayNames) :
       LET n == IF f = 0 THEN Len(ArrayNames) ELSE f - 1
           got == {ArrayNames[k] : k \in 1..n}
           arr(name, z) == IF name \in got THEN Zeroed(num_devices, z)
                           ELSE NullPtr
       IN /\ program' = [program EXCEPT
                 !.binary_sizes = arr("binary_sizes", 0),
                 !.binaries = arr("binaries", NullSlot),
                 !.pocl_binaries = arr("pocl_binaries", NullSlot),
                 !.pocl_binary_sizes = arr("pocl_binary_sizes", 0),
                 !.build_log = arr("build_log", NULL),
                 !.llvm_irs = arr("llvm_irs", NULL),
                 !.build_hash = arr("build_hash", 0)]
          /\ heap' = heap \cup {Blk(a) : a \in got}
          /\ IF f = 0
             THEN /\ Log([k \in 1..n |-> <<"alloc", -1, ArrayNames[k]>>])
                  /\ pc' = "init_program"
                  /\ UNCHANGED errcode
             ELSE /\ Log([k \in 1..n |-> <<"alloc", -1, ArrayNames[k]>>]
                         \o << <<"alloc_failed", -1, ArrayNames[f]>> >>)
                  /\ errcode' = CL_OUT_OF_HOST_MEMORY
                  /\ pc' = "ERROR_CLEAN_PROGRAM_AND_BINARIES"
  /\ UNCHANGED <<args, binary_status, errcode_ret, i, num_devices,
                 device_list, unique_devlist, context_refs, ret>>

\* the for statement of line 135, entered or continued with index k
LoopAt(k) == IF k < num_devices THEN "loop" ELSE "SUCCESS"

\* ProgramFields with the caller's device count stored.
ProgramFieldsCallerCount ==
  [program EXCEPT
     !.context = context,
     !.num_devices = caller_num_devices,
     !.devices = unique_devlist,
     !.build_status = CL_BUILD_NONE,
     !.binary_type = CL_PROGRAM_BINARY_TYPE_NONE]

\* ProgramFields without the build status: the zero of calloc stays.
ProgramFieldsNoBuildStatus ==
  [program EXCEPT
     !.context = context,
     !.num_devices = num_devices,
     !.devices = unique_devlist,
     !.binary_type = CL_PROGRAM_BINARY_TYPE_NONE]

\* Lines 125-129: the program with its scalar fields set.
ProgramFields ==
  [program EXCEPT
     !.context = context,
     !.num_devices = num_devices,
     !.devices = unique_devlist,
     !.build_status = CL_BUILD_NONE,
     !.binary_type = CL_PROGRAM_BINARY_TYPE_NONE]

\* Lines 125-133.
InitProgram ==
  /\ pc = "init_program"
  /\ program' = ProgramFields
  /\ IF allow_empty_binaries /\ lengths.null /\ binaries.null
     THEN /\ pc' = "SUCCESS"
          /\ Log(<< <<"shortcut", -1, "empty">> >>)
          /\ UNCHANGED i
     ELSE /\ i' = 0
          /\ pc' = LoopAt(0)
          /\ UNCHANGED trace
  /\ UNCHANGED <<args, binary_status, errcode_ret, errcode, num_devices,
                 device_list, unique_devlist, heap, context_refs, ret>>

(***************************************************************************)
(* One iteration of the loop of lines 135-228.                             *)
(***************************************************************************)
\* binaries[i] as lines 138-198 read it.  binaries and lengths are the
\* caller's arrays, indexed by the loop index over the resolved list.  With
\* binaries == NULL or binaries[i] == NULL the bytes read are indeterminate
\* (blob id 0 of any kind) when the process is not killed (LoopFault).
NullBlobRead ==
  IF binaries.null THEN TRUE ELSE At(binaries, i).id = 0
NullBlobReadAt(k) ==
  IF binaries.null THEN TRUE ELSE At(binaries, k).id = 0
NullRead ==
  IF lengths.null THEN TRUE ELSE NullBlobRead
BlobRead ==
  IF NullBlobRead
  THEN {BlobAt(0, k) : k \in BlobKinds}
  ELSE {At(binaries, i)}
LengthRead ==
  IF lengths.null THEN {0, SizeAt(i + 1)} ELSE {At(lengths, i)}

\* Classify with the packed-binary check tried first.
ClassifyPackedFirst(b, dev) ==
  IF PoclBinaryCheckBinary(dev, b) THEN "packed"
  ELSE IF HasBCMarker(b) THEN "native"
  ELSE IF build.OCS_AVAILABLE /\ BitcodeIsSpirv(b) THEN "spirv"
  ELSE "unknown"

\* The if / else-if chain of lines 138, 149, 194, 220.
Classify(b, dev) ==
  IF HasBCMarker(b) THEN "native"
  ELSE IF build.OCS_AVAILABLE /\ BitcodeIsSpirv(b) THEN "spirv"
  ELSE IF PoclBinaryCheckBinary(dev, b) THEN "packed"
  ELSE "unknown"

\* SetStatus writing *binary_status, the first slot, for every device.
SetStatusFirstSlot(code) ==
  binary_status' = IF binary_status.null THEN binary_status
                   ELSE Put(binary_status, 0, code)

\* SetStatus writing the slot after the device's own.
SetStatusNextSlot(code) ==
  binary_status' = IF binary_status.null THEN binary_status
                   ELSE IF i + 1 < Len(binary_status.elems)
                        THEN Put(binary_status, i + 1, code)
                        ELSE binary_status

\* if (binary_status != NULL) binary_status[i] = code;
SetStatus(code) ==
  binary_status' = IF binary_status.null THEN binary_status
                   ELSE Put(binary_status, i, code)
StatusEvent(code) ==
  IF binary_status.null THEN <<>> ELSE << <<"status", i, code>> >>

\* the end of the loop body: ++i and the loop test
NextDevice ==
  /\ i' = i + 1
  /\ pc' = LoopAt(i + 1)

\* A load through a NULL pointer in the loop kills the process.
LoopFault ==
  /\ pc = "loop"
  /\ NullRead
  /\ pc' = "crashed"
  /\ Log(<< <<"null_read", i, "loop">> >>)
  /\ UNCHANGED <<args, binary_status, errcode_ret, i, errcode, num_devices,
                 device_list, unique_devlist, program, heap, context_refs,
                 ret>>

\* Lines 138-145.  malloc is not checked: when it fails memcpy writes through
\* NULL and the process is killed.
NativeBranch ==
  /\ pc = "loop"
  /\ \E b \in BlobRead, len \in LengthRead, ok \in BOOLEAN :
       /\ Classify(b, At(device_list, i)) = "native"
       /\ IF ok
          THEN /\ program' = [program EXCEPT
                     !.binary_sizes = Put(@, i, len),
                     !.binaries = Put(@, i, Slot("copy", b.id))]
               /\ heap' = heap \cup {<<"binaries", i>>}
               /\ SetStatus(CL_SUCCESS)
               /\ Log(<< <<"branch", i, "native">>, <<"alloc", i, "binaries">> >>
                      \o StatusEvent(CL_SUCCESS)
                      \o << <<"done", i, "native">> >>)
               /\ NextDevice
          ELSE /\ program' = [program EXCEPT !.binary_sizes = Put(@, i, len)]
               /\ Log(<< <<"branch", i, "native">>,
                         <<"alloc_failed", i, "binaries">> >>)
               /\ pc' = "crashed"
               /\ UNCHANGED <<heap, binary_status, i>>
  /\ UNCHANGED <<args, errcode_ret, errcode, num_devices, device_list,
                 unique_devlist, context_refs, ret>>

\* the size of the file llvm-spirv writes for an input of len bytes
ConvertedSize(len) == len + 1

\* ConverterAvailable of a build that compiles lines 165-184 always.
ConverterAlwaysCompiled == TRUE

\* #ifdef ENABLE_SPIRV (line 164): lines 165-184 are compiled, else 186-189.
ConverterAvailable == build.ENABLE_SPIRV

\* Lines 149-191 (compiled with OCS_AVAILABLE).
SpirvBranch ==
  /\ pc = "loop"
  /\ \E b \in BlobRead, len \in LengthRead :
       /\ Classify(b, At(device_list, i)) = "spirv"
       /\ IF ~IsSpirvOpenCL(b)
          THEN /\ GotoError(CL_BUILD_PROGRAM_FAILURE)
               /\ Log(<< <<"branch", i, "spirv">>, <<"fail", i, "not_kernel">> >>)
               /\ UNCHANGED <<program, heap, i>>
          ELSE IF ~HasSpirExtension(At(device_list, i))
          THEN /\ GotoError(CL_BUILD_PROGRAM_FAILURE)
               /\ Log(<< <<"branch", i, "spirv">>, <<"fail", i, "no_spir">> >>)
               /\ UNCHANGED <<program, heap, i>>
          ELSE IF ~ConverterAvailable
          THEN /\ GotoError(CL_BUILD_PROGRAM_FAILURE)
               /\ Log(<< <<"branch", i, "spirv">>, <<"fail", i, "no_converter">> >>)
               /\ UNCHANGED <<program, heap, i>>
          ELSE \E exit \in {"zero", "nonzero"} :
                 /\ errcode' = IF exit = "zero" THEN CL_SUCCESS ELSE "nonzero"
                 /\ IF exit = "zero"
                    THEN \* the output file is read into a new buffer
                         /\ program' = [program EXCEPT
                               !.binary_sizes = Put(@, i, ConvertedSize(len)),
                               !.binaries = Put(@, i, Slot("converted", b.id))]
                         /\ heap' = heap \cup {<<"binaries", i>>}
                         /\ Log(<< <<"branch", i, "spirv">>,
                                   <<"run_command", i, exit>>,
                                   <<"read_file", i, "converted">>,
                                   <<"alloc", i, "binaries">>,
                                   <<"done", i, "spirv">> >>)
                         /\ NextDevice
                    ELSE IF ~build.NDEBUG
                    THEN \* assert (errcode == 0) aborts the process
                         /\ Log(<< <<"branch", i, "spirv">>,
                                   <<"run_command", i, exit>>,
                                   <<"abort", i, "assert">> >>)
                         /\ pc' = "crashed"
                         /\ UNCHANGED <<program, heap, i>>
                    ELSE \* no assert: pocl_read_file is given a path the
                         \* converter did not write; content and fsize are
                         \* locals without an initializer
                         /\ \E s \in {NullSlot, Slot("wild", b.id)},
                               fsize \in {0, ConvertedSize(len)} :
                              program' = [program EXCEPT
                                  !.binary_sizes = Put(@, i, fsize),
                                  !.binaries = Put(@, i, s)]
                         /\ Log(<< <<"branch", i, "spirv">>,
                                   <<"run_command", i, exit>>,
                                   <<"read_file", i, "missing">>,
                                   <<"done", i, "spirv">> >>)
                         /\ NextDevice
                         /\ UNCHANGED heap
  /\ UNCHANGED <<args, binary_status, errcode_ret, num_devices, device_list,
                 unique_devlist, context_refs, ret>>

\* Lines 194-218.  The collaborators' outcomes: malloc, the cache
\* directory, the deserializer, the presence of a cached program.bc.
PackedOutcomes == {"malloc_fails", "cachedir_fails", "deserialize_fails",
                   "no_cached_ir", "cached_ir"}

\* PackedBranch with the result of pocl_binary_deserialize ignored.
PackedBranchDeserializeUnchecked ==
  /\ pc = "loop"
  /\ \E b \in BlobRead, len \in LengthRead, out \in PackedOutcomes :
       LET copied == [program EXCEPT
                        !.pocl_binary_sizes = Put(@, i, len),
                        !.pocl_binaries = Put(@, i, Slot("copy", b.id))]
           hashed == [copied EXCEPT !.build_hash = Put(@, i, b.id)]
           head == << <<"branch", i, "packed">>,
                      <<"alloc", i, "pocl_binaries">>,
                      <<"buildhash", i, "set">> >>
       IN
       /\ Classify(b, At(device_list, i)) = "packed"
       /\ CASE out = "malloc_fails" ->
                 /\ program' = [program EXCEPT
                                  !.pocl_binary_sizes = Put(@, i, len)]
                 /\ Log(<< <<"branch", i, "packed">>,
                           <<"alloc_failed", i, "pocl_binaries">> >>)
                 /\ pc' = "crashed"
                 /\ UNCHANGED <<heap, binary_status, i, errcode>>
            [] out = "cachedir_fails" ->
                 /\ program' = hashed
                 /\ heap' = heap \cup {<<"pocl_binaries", i>>}
                 /\ Log(head \o << <<"cachedir", i, "fail">>,
                                   <<"fail", i, "cachedir">> >>)
                 /\ GotoError(CL_BUILD_PROGRAM_FAILURE)
                 /\ UNCHANGED <<binary_status, i>>
            [] out = "deserialize_fails" ->
                 /\ program' = hashed
                 /\ heap' = heap \cup {<<"pocl_binaries", i>>}
                 /\ SetStatus(CL_SUCCESS)
                 /\ Log(head \o << <<"cachedir", i, "ok">>,
                                   <<"deserialize", i, "fail">>,
                                   <<"exists", i, "no">> >>
                        \o StatusEvent(CL_SUCCESS)
                        \o << <<"done", i, "packed">> >>)
                 /\ NextDevice
                 /\ UNCHANGED errcode
            [] out = "no_cached_ir" ->
                 /\ program' = hashed
                 /\ heap' = heap \cup {<<"pocl_binaries", i>>}
                 /\ SetStatus(CL_SUCCESS)
                 /\ Log(head \o << <<"cachedir", i, "ok">>,
                                   <<"deserialize", i, "ok">>,
                                   <<"exists", i, "no">> >>
                        \o StatusEvent(CL_SUCCESS)
                        \o << <<"done", i, "packed">> >>)
                 /\ NextDevice
                 /\ UNCHANGED errcode
            [] out = "cached_ir" ->
                 /\ program' = [hashed EXCEPT
                       !.binaries = Put(@, i, Slot("cached", b.id)),
                       !.binary_sizes = Put(@, i, ConvertedSize(len))]
                 /\ heap' = heap \cup {<<"pocl_binaries", i>>,
                                       <<"binaries", i>>}
                 /\ SetStatus(CL_SUCCESS)
                 /\ Log(head \o << <<"cachedir", i, "ok">>,
                                   <<"deserialize", i, "ok">>,
                                   <<"exists", i, "yes">>,
                                   <<"read_file", i, "cached">>,
                                   <<"alloc", i, "binaries">> >>
                        \o StatusEvent(CL_SUCCESS)
                        \o << <<"done", i, "packed">> >>)
                 /\ NextDevice
                 /\ UNCHANGED errcode
  /\ UNCHANGED <<args, errcode_ret, num_devices, device_list,
                 unique_devlist, context_refs, ret>>

\* Lines 194-218.
PackedBranch ==
  /\ pc = "loop"
  /\ \E b \in BlobRead, len \in LengthRead, out \in PackedOutcomes :
       LET copied == [program EXCEPT
                        !.pocl_binary_sizes = Put(@, i, len),
                        !.pocl_binaries = Put(@, i, Slot("copy", b.id))]
           hashed == [copied EXCEPT !.build_hash = Put(@, i, b.id)]
           head == << <<"branch", i, "packed">>,
                      <<"alloc", i, "pocl_binaries">>,
                      <<"buildhash", i, "set">> >>
       IN
       /\ Classify(b, At(device_list, i)) = "packed"
       /\ CASE out = "malloc_fails" ->
                 /\ program' = [program EXCEPT
                                  !.pocl_binary_sizes = Put(@, i, len)]
                 /\ Log(<< <<"branch", i, "packed">>,
                           <<"alloc_failed", i, "pocl_binaries">> >>)
                 /\ pc' = "crashed"
                 /\ UNCHANGED <<heap, binary_status, i, errcode>>
            [] out = "cachedir_fails" ->
                 /\ program' = hashed
                 /\ heap' = heap \cup {<<"pocl_binaries", i>>}
                 /\ Log(head \o << <<"cachedir", i, "fail">>,
                                   <<"fail", i, "cachedir">> >>)
                 /\ GotoError(CL_BUILD_PROGRAM_FAILURE)
                 /\ UNCHANGED <<binary_status, i>>
            [] out = "deserialize_fails" ->
                 /\ program' = hashed
                 /\ heap' = heap \cup {<<"pocl_binaries", i>>}
                 /\ Log(head \o << <<"cachedir", i, "ok">>,
                                   <<"deserialize", i, "fail">>,
                                   <<"fail", i, "deserialize">> >>)
                 /\ GotoError(CL_INVALID_BINARY)
                 /\ UNCHANGED <<binary_status, i>>
            [] out = "no_cached_ir" ->
                 /\ program' = hashed
                 /\ heap' = heap \cup {<<"pocl_binaries", i>>}
                 /\ SetStatus(CL_SUCCESS)
                 /\ Log(head \o << <<"cachedir", i, "ok">>,
                                   <<"deserialize", i, "ok">>,
                                   <<"exists", i, "no">> >>
                        \o StatusEvent(CL_SUCCESS)
                        \o << <<"done", i, "packed">> >>)
                 /\ NextDevice
                 /\ UNCHANGED errcode
            [] out = "cached_ir" ->
                 /\ program' = [hashed EXCEPT
                       !.binaries = Put(@, i, Slot("cached", b.id)),
                       !.binary_sizes = Put(@, i, ConvertedSize(len))]
                 /\ heap' = heap \cup {<<"pocl_binaries", i>>,
                                       <<"binaries", i>>}
                 /\ SetStatus(CL_SUCCESS)
                 /\ Log(head \o << <<"cachedir", i, "ok">>,
                                   <<"deserialize", i, "ok">>,
                                   <<"exists", i, "yes">>,
                                   <<"read_file", i, "cached">>,
                                   <<"alloc", i, "binaries">> >>
                        \o StatusEvent(CL_SUCCESS)
                        \o << <<"done", i, "packed">> >>)
                 /\ NextDevice
                 /\ UNCHANGED errcode
  /\ UNCHANGED <<args, errcode_ret, num_devices, device_list,
                 unique_devlist, context_refs, ret>>

\* UnknownBranch without the goto: the loop goes on to the next device.
UnknownBranchNoGoto ==
  /\ pc = "loop"
  /\ \E b \in BlobRead :
       /\ Classify(b, At(device_list, i)) = "unknown"
       /\ SetStatus(CL_INVALID_BINARY)
       /\ Log(<< <<"branch", i, "unknown">> >>
              \o StatusEvent(CL_INVALID_BINARY)
              \o << <<"fail", i, "unknown">> >>)
  /\ errcode' = CL_INVALID_BINARY
  /\ NextDevice
  /\ UNCHANGED <<args, errcode_ret, num_devices, device_list,
                 unique_devlist, program, heap, context_refs, ret>>

\* Lines 220-227.
UnknownBranch ==
  /\ pc = "loop"
  /\ \E b \in BlobRead :
       /\ Classify(b, At(device_list, i)) = "unknown"
       /\ SetStatus(CL_INVALID_BINARY)
       /\ Log(<< <<"branch", i, "unknown">> >>
              \o StatusEvent(CL_INVALID_BINARY)
              \o << <<"fail", i, "unknown">> >>)
  /\ errcode' = CL_INVALID_BINARY
  /\ pc' = "ERROR_CLEAN_PROGRAM_AND_BINARIES"
  /\ UNCHANGED <<args, errcode_ret, i, num_devices, device_list,
                 unique_devlist, program, heap, context_refs, ret>>

(***************************************************************************)
(* The exits.                                                              *)
(***************************************************************************)
\* if (errcode_ret != NULL) *errcode_ret = code;
Report(code) ==
  errcode_ret' = IF errcode_ret = NULL THEN NULL ELSE code

\* Success without POCL_RETAIN_OBJECT.
SuccessNoRetain ==
  /\ pc = "SUCCESS"
  /\ Report(CL_SUCCESS)
  /\ ret' = "program"
  /\ pc' = "returned"
  /\ UNCHANGED <<args, binary_status, i, errcode, num_devices, device_list,
                 unique_devlist, program, heap, trace, context_refs>>

\* Lines 230-235.
Success ==
  /\ pc = "SUCCESS"
  /\ context_refs' = context_refs + 1
  /\ Report(CL_SUCCESS)
  /\ ret' = "program"
  /\ pc' = "returned"
  /\ UNCHANGED <<args, binary_status, i, errcode, num_devices, device_list,
                 unique_devlist, program, heap, trace>>

\* Lines 241-253.  Only binaries, binary_sizes, pocl_binaries and
\* pocl_binary_sizes (with the per-device buffers) and the program are
\* freed.  free() of an indeterminate pointer may kill the process.
SlotBlocks(name, arr) ==
  IF arr.null THEN {} ELSE {<<name, k>> : k \in 0..(num_devices - 1)}

ErrorCleanProgramAndBinaries ==
  /\ pc = "ERROR_CLEAN_PROGRAM_AND_BINARIES"
  /\ heap' = heap \ (SlotBlocks("binaries", program.binaries)
                     \cup SlotBlocks("pocl_binaries", program.pocl_binaries)
                     \cup {Blk("binaries"), Blk("binary_sizes"),
                           Blk("pocl_binaries"), Blk("pocl_binary_sizes"),
                           Blk("program")})
  /\ program' = [UninitProgram EXCEPT !.ptr = NULL]
  /\ Log(<< <<"free", -1, "program">> >>)
  /\ \/ pc' = "ERROR"
     \/ /\ ~program.binaries.null
        /\ \E k \in 0..(num_devices - 1) : At(program.binaries, k).src = "wild"
        /\ pc' = "crashed"
  /\ UNCHANGED <<args, binary_status, errcode_ret, i, errcode, num_devices,
                 device_list, unique_devlist, context_refs, ret>>

\* Error without POCL_MEM_FREE (unique_devlist).
ErrorKeepsDeviceList ==
  /\ pc = "ERROR"
  /\ Report(errcode)
  /\ ret' = NULL
  /\ pc' = "returned"
  /\ UNCHANGED <<args, binary_status, i, errcode, num_devices, device_list,
                 program, context_refs, trace, heap, unique_devlist>>

\* Lines 254-260.
Error ==
  /\ pc = "ERROR"
  /\ heap' = heap \ {Blk("unique_devlist")}
  /\ unique_devlist' = NullPtr
  /\ Report(errcode)
  /\ ret' = NULL
  /\ pc' = "returned"
  /\ UNCHANGED <<args, binary_status, i, errcode, num_devices, device_list,
                 program, context_refs, trace>>

Next ==
  \/ ValidateArguments
  \/ CheckDuplicates
  \/ ResolveDevices
  \/ CheckMembership
  \/ AllocProgram
  \/ AllocArrays
  \/ InitProgram
  \/ LoopFault
  \/ NativeBranch
  \/ SpirvBranch
  \/ PackedBranch
  \/ UnknownBranch
  \/ Success
  \/ ErrorCleanProgramAndBinaries
  \/ Error

Spec == Init /\ [][Next]_vars

(***************************************************************************)
(* Properties.                                                             *)
(***************************************************************************)
Has(e) == \E k \in 1..Len(trace) : trace[k] = e
\* a step of the given name was recorded for device k
StepAt(name, k) ==
  \E n \in 1..Len(trace) : trace[n][1] = name /\ trace[n][2] = k
Returned == pc = "returned"
Crashed == pc = "crashed"
ErrorCodes == {CL_INVALID_CONTEXT, CL_INVALID_VALUE, CL_INVALID_DEVICE,
               CL_INVALID_BINARY, CL_OUT_OF_HOST_MEMORY,
               CL_BUILD_PROGRAM_FAILURE}
FailKinds == {"unknown", "not_kernel", "no_spir", "no_converter", "cachedir",
              "deserialize"}
Branches == {"native", "spirv", "packed"}
\* the loop failed at device k / completed device k
FailedAt(k) == \E f \in FailKinds : Has(<<"fail", k, f>>)
DoneAt(k) == \E b \in Branches : Has(<<"done", k, b>>)
Indices == 0..(MaxDevices - 1)
\* the call reports code: NULL is returned and *errcode_ret, if any, is code
FailsWith(code) ==
  /\ ret = NULL
  /\ errcode = code
  /\ errcode_ret \in {NULL, code}

\* C1: whenever the call fails while processing resolved device k, for any
\* kind of device-level failure, then at return every native-IR copy and
\* packed-binary copy of the slots 0..k, the program object and the
\* resolved device list have been released.
C1_RollbackOnDeviceFailure ==
  \A k \in Indices :
    (Returned /\ FailedAt(k)) =>
      /\ \A j \in 0..k : /\ <<"binaries", j>> \notin heap
                         /\ <<"pocl_binaries", j>> \notin heap
      /\ Blk("program") \notin heap
      /\ Blk("unique_devlist") \notin heap

\* C2: every return is either a program object with success reported,
\* after every resolved device completed its branch or through the
\* empty-program shortcut, or NULL with an error code that is not success.
C2_NoPartialSuccess ==
  Returned =>
    \/ /\ ret = "program"
       /\ program.ptr = "allocated"
       /\ errcode_ret \in {NULL, CL_SUCCESS}
       /\ \/ Has(<<"shortcut", -1, "empty">>)
          \/ \A k \in 0..(num_devices - 1) : DoneAt(k)
    \/ /\ ret = NULL
       /\ errcode \in ErrorCodes
       /\ errcode_ret \in {NULL, errcode}

\* a call that completed its first device and then failed
C2_Witness ==
  /\ Returned
  /\ ret = NULL
  /\ DoneAt(0)
  /\ FailedAt(1)
  /\ errcode_ret = errcode

\* C3: a failed allocation makes the call fail with out-of-host-memory and
\* leaves nothing allocated at return.
AllocationFailed ==
  \E k \in 1..Len(trace) : trace[k][1] = "alloc_failed"

C3_AllocationFailureReleasesAll ==
  AllocationFailed =>
    /\ ~Crashed
    /\ Returned => (FailsWith(CL_OUT_OF_HOST_MEMORY) /\ heap = {})

\* C4: with N >= 2 resolved devices, if devices before k have valid native
\* or packed blobs and device k's blob is unrecognized, the call fails with
\* invalid-binary, returns NULL, and no allocation of the call remains.
C4_UnrecognizedBlobLeavesNothing ==
  \A k \in Indices :
    ( /\ Returned
      /\ num_devices >= 2
      /\ Has(<<"fail", k, "unknown">>)
      /\ \A j \in 0..(k - 1) :
           Has(<<"done", j, "native">>) \/ Has(<<"done", j, "packed">>) )
    => (FailsWith(CL_INVALID_BINARY) /\ heap = {})

\* C5: with a status array supplied, every device that completed its
\* branch without error has its status slot set to success.
C5_StatusSetForCompletedDevices ==
  \A k \in Indices :
    (DoneAt(k) /\ ~binary_status.null) => At(binary_status, k) = CL_SUCCESS

\* C6 as stated: a device list naming a device twice always makes the call
\* fail with invalid-device.
RepeatedDevice(S) ==
  /\ ~caller_devices.null
  /\ \E a, b \in 1..Len(caller_devices.elems) :
       /\ a < b
       /\ caller_devices.elems[a] = caller_devices.elems[b]
       /\ caller_devices.elems[a] \in S

C6_DuplicateAlwaysInvalidDevice ==
  (Returned /\ RepeatedDevice(Devices)) => FailsWith(CL_INVALID_DEVICE)

\* the lengths / binaries pair passes the tests of lines 55-65
BlobArgumentsPass ==
  \/ allow_empty_binaries
  \/ /\ ~lengths.null
     /\ ~binaries.null
     /\ \A j \in 1..caller_num_devices :
          lengths.elems[j] # 0 /\ binaries.elems[j].id # 0

RootDevices == {d \in Devices : RealDev(d) = d}

\* C6 amended: a device list naming a root device twice (a device of the
\* context, or a root device foreign to it) makes the call fail with
\* invalid-device when the context is not NULL and the lengths / binaries
\* pair passes its tests.
C6_RootDuplicateInvalidDevice ==
  (context # NULL /\ RepeatedDevice(RootDevices) /\ BlobArgumentsPass)
  => /\ ~Crashed
     /\ program.ptr = UNINIT
     /\ Returned => FailsWith(CL_INVALID_DEVICE)

C6_Witness ==
  /\ Returned
  /\ context # NULL
  /\ RepeatedDevice(Range(ContextDevices))
  /\ BlobArgumentsPass
  /\ ~allow_empty_binaries
  /\ errcode_ret = CL_INVALID_DEVICE

\* C7 as stated: a call with num_devices == 0 always fails with
\* invalid-value.
C7_ZeroDevicesAlwaysInvalidValue ==
  (Returned /\ caller_num_devices = 0) => FailsWith(CL_INVALID_VALUE)

\* C7 amended: a call with num_devices == 0 and a context that is not NULL
\* fails with invalid-value, whatever the other arguments are.
C7_ZeroDevicesInvalidValue ==
  (context # NULL /\ caller_num_devices = 0)
  => /\ pc \in {"validate", "ERROR", "returned"}
     /\ Returned => FailsWith(CL_INVALID_VALUE)

C7_Witness ==
  /\ Returned
  /\ context # NULL
  /\ caller_num_devices = 0
  /\ ~caller_devices.null
  /\ allow_empty_binaries
  /\ errcode_ret = CL_INVALID_VALUE

\* C8: after a successful call the program's device count is the number of
\* distinct root devices of the caller's list, every per-device array has
\* that many slots, and the device array lists those roots, each once.
CallerRoots == {RealDev(d) : d \in Range(caller_devices.elems)}

HasSlots(a, n) == ~a.null /\ Len(a.elems) = n

C8_ArraysMatchResolvedDevices ==
  (Returned /\ ret = "program") =>
    LET n == Cardinality(CallerRoots)
    IN /\ program.num_devices = n
       /\ HasSlots(program.binary_sizes, n)
       /\ HasSlots(program.binaries, n)
       /\ HasSlots(program.pocl_binaries, n)
       /\ HasSlots(program.pocl_binary_sizes, n)
       /\ HasSlots(program.build_log, n)
       /\ HasSlots(program.llvm_irs, n)
       /\ HasSlots(program.build_hash, n)
       /\ HasSlots(program.devices, n)
       /\ Range(program.devices.elems) = CallerRoots
       /\ \A k \in 0..(n - 1) : DoneAt(k) \/ Has(<<"shortcut", -1, "empty">>)

\* a sub-device given together with its root device yields one entry
C8_Witness ==
  /\ Returned
  /\ ret = "program"
  /\ Range(caller_devices.elems) = {"R1", "S1"}
  /\ program.num_devices = 1
  /\ program.devices.elems = <<"R1">>

\* C9: when the resolved list holds a root device that is not a device of
\* the context, the call fails with invalid-device, no program object is
\* allocated, and the resolved list has been freed at return.
ResolvedForeign ==
  /\ Has(<<"alloc", -1, "unique_devlist">>)
  /\ \E d \in CallerRoots : d \notin Range(ContextDevices)

C9_ForeignDeviceInvalidDevice ==
  ResolvedForeign =>
    /\ ~Crashed
    /\ program.ptr = UNINIT
    /\ ~Has(<<"alloc", -1, "program">>)
    /\ Returned => (FailsWith(CL_INVALID_DEVICE) /\ heap = {}
                    /\ unique_devlist.null)

\* a context device followed by a foreign device
C9_Witness ==
  /\ Returned
  /\ ResolvedForeign
  /\ caller_devices.elems[1] \in Range(ContextDevices)
  /\ errcode_ret = CL_INVALID_DEVICE

\* C10: a blob with the "BC" marker is handled by the native-IR branch
\* (copied into the native-IR slot, packed slot empty, no build hash, no
\* cache directory) even if the portable or the packed check would accept
\* it; a blob without the marker that the portable check accepts is handled
\* by the portable branch even if the packed check would accept it.
BranchOf(k) ==
  trace[CHOOSE n \in 1..Len(trace) :
          trace[n][1] = "branch" /\ trace[n][2] = k][3]
Classified(k) == StepAt("branch", k)
ProgramLive == program.ptr = "allocated" /\ ~program.build_hash.null

C10_NativeMarkerFirst ==
  \A k \in Indices :
    (Classified(k) /\ ~NullBlobReadAt(k)) =>
      LET b == At(binaries, k)
      IN /\ HasBCMarker(b) =>
              /\ BranchOf(k) = "native"
              /\ ~Has(<<"cachedir", k, "ok">>)
              /\ ~Has(<<"cachedir", k, "fail">>)
              /\ ~Has(<<"buildhash", k, "set">>)
              /\ (ProgramLive /\ DoneAt(k)) =>
                   /\ At(program.binaries, k) = Slot("copy", b.id)
                   /\ At(program.pocl_binaries, k) = NullSlot
                   /\ At(program.build_hash, k) = 0
         /\ (~HasBCMarker(b) /\ build.OCS_AVAILABLE /\ BitcodeIsSpirv(b))
              => BranchOf(k) = "spirv"

\* a blob that carries the marker and would pass the other two checks
C10_Witness ==
  \E k \in Indices :
    /\ Has(<<"done", k, "native">>)
    /\ ~NullBlobReadAt(k)
    /\ build.OCS_AVAILABLE
    /\ BitcodeIsSpirv(At(binaries, k))
    /\ PoclBinaryCheckBinary(At(device_list, k), At(binaries, k))
    /\ Returned

\* C11: in empty-binaries mode with lengths and binaries both NULL and a
\* non-empty device list of context devices without a duplicate, the call
\* (when no allocation fails) succeeds and returns a program with binary
\* type none, build status none and every per-device slot empty (native-IR
\* blob and size, packed blob and size, build log, module handle), without
\* classifying any blob and without touching the status array.
EmptyCall ==
  /\ allow_empty_binaries
  /\ lengths.null
  /\ binaries.null
  /\ context # NULL
  /\ ~caller_devices.null
  /\ caller_num_devices >= 1
  /\ Accepted(caller_devices.elems)

EmptySlots(k) ==
  /\ At(program.binaries, k) = NullSlot
  /\ At(program.binary_sizes, k) = 0
  /\ At(program.pocl_binaries, k) = NullSlot
  /\ At(program.pocl_binary_sizes, k) = 0
  /\ At(program.build_log, k) = NULL
  /\ At(program.llvm_irs, k) = NULL

C11_EmptyProgramShortcut ==
  EmptyCall =>
    /\ ~Crashed
    /\ \A k \in 1..Len(trace) :
         trace[k][1] \notin {"branch", "status", "null_read", "run_command"}
    /\ binary_status = Zeroed(caller_num_devices, "unset")
    /\ Returned =>
         \/ AllocationFailed /\ FailsWith(CL_OUT_OF_HOST_MEMORY)
         \/ /\ ~AllocationFailed
            /\ ret = "program"
            /\ errcode_ret \in {NULL, CL_SUCCESS}
            /\ program.ptr = "allocated"
            /\ program.binary_type = CL_PROGRAM_BINARY_TYPE_NONE
            /\ program.build_status = CL_BUILD_NONE
            /\ program.num_devices >= 1
            /\ \A k \in 0..(program.num_devices - 1) : EmptySlots(k)

\* an empty program for two devices
C11_Witness ==
  /\ EmptyCall
  /\ Returned
  /\ ret = "program"
  /\ program.num_devices = 2
  /\ Has(<<"shortcut", -1, "empty">>)
  /\ errcode_ret = CL_SUCCESS

\* C12: the context's reference count is one higher than at entry after
\* every successful return, the empty-program shortcut included, and is the
\* count at entry after every failing return and at every point before.
C12_ContextRetainedOnSuccessOnly ==
  /\ (Returned /\ ret = "program") => context_refs = 2
  /\ (Returned /\ ret = NULL) => context_refs = 1
  /\ ~Returned => context_refs = 1

\* a successful return through the shortcut
C12_Witness ==
  /\ Returned
  /\ ret = "program"
  /\ Has(<<"shortcut", -1, "empty">>)
  /\ context_refs = 2

\* C13 as stated: in a build without the conversion capability (the
\* portable branch compiled without the converter, or not compiled at all)
\* a call whose loop comes to a portable-format blob fails with
\* build-failure, and the converter is never run.
NoConversion == ~build.OCS_AVAILABLE \/ ~build.ENABLE_SPIRV
Portable(b) == ~HasBCMarker(b) /\ BitcodeIsSpirv(b)
ConverterRun ==
  \E k \in 1..Len(trace) : trace[k][1] = "run_command"
PortableBlobRead ==
  /\ ~binaries.null
  /\ \E k \in 0..(num_devices - 1) : Portable(At(binaries, k))

C13_NoConversionAlwaysBuildFailure ==
  /\ NoConversion => ~ConverterRun
  /\ \A k \in Indices :
       (NoConversion /\ Returned /\ Classified(k) /\ ~NullBlobReadAt(k))
       => (Portable(At(binaries, k)) => FailsWith(CL_BUILD_PROGRAM_FAILURE))

\* C13 amended: without ENABLE_SPIRV the converter is never run.  With the
\* portable branch compiled in (OCS_AVAILABLE) and no converter, a device
\* whose blob is of the portable format fails the call with build-failure,
\* and no call that reads such a blob returns a program.  Without
\* OCS_AVAILABLE no blob is taken for the portable format: the blob goes to
\* the packed check and, if that rejects it, fails with invalid-binary.
C13_NoConverterBuildFailure ==
  /\ NoConversion => ~ConverterRun
  /\ \A k \in Indices :
       (build.OCS_AVAILABLE /\ ~build.ENABLE_SPIRV
        /\ Has(<<"branch", k, "spirv">>))
       => /\ pc \in {"ERROR", "returned"}
          /\ errcode = CL_BUILD_PROGRAM_FAILURE
          /\ ~DoneAt(k)
          /\ Returned => FailsWith(CL_BUILD_PROGRAM_FAILURE)
  /\ (build.OCS_AVAILABLE /\ ~build.ENABLE_SPIRV /\ Returned
      /\ PortableBlobRead) => ret = NULL
  /\ \A k \in Indices :
       (~build.OCS_AVAILABLE /\ Classified(k) /\ ~NullBlobReadAt(k))
       => /\ BranchOf(k) # "spirv"
          /\ (Portable(At(binaries, k)) /\ BranchOf(k) = "unknown")
               => /\ pc \in {"ERROR_CLEAN_PROGRAM_AND_BINARIES", "ERROR",
                             "returned"}
                  /\ errcode = CL_INVALID_BINARY

\* a Kernel-mode portable blob for a device with cl_khr_spir, as second
\* blob, in a build with the portable branch and without the converter
C13_Witness ==
  /\ build.OCS_AVAILABLE
  /\ ~build.ENABLE_SPIRV
  /\ Returned
  /\ DoneAt(0)
  /\ Has(<<"fail", 1, "no_converter">>)
  /\ errcode_ret = CL_BUILD_PROGRAM_FAILURE

\* C14: when the blob of resolved device k is unrecognized and a status
\* array was supplied, slot k of the status array holds invalid-binary from
\* then on and at return, and the call's error code is invalid-binary.
C14_UnrecognizedBlobStatus ==
  \A k \in Indices :
    (Has(<<"fail", k, "unknown">>) /\ ~binary_status.null) =>
      /\ At(binary_status, k) = CL_INVALID_BINARY
      /\ errcode = CL_INVALID_BINARY
      /\ Returned => FailsWith(CL_INVALID_BINARY)

\* the second device's blob is unrecognized, the first one was built
C14_Witness ==
  /\ Returned
  /\ ~binary_status.null
  /\ DoneAt(0)
  /\ Has(<<"fail", 1, "unknown">>)
  /\ At(binary_status, 0) = CL_SUCCESS
  /\ At(binary_status, 1) = CL_INVALID_BINARY
  /\ errcode_ret = CL_INVALID_BINARY

\* C15: after the converter exits non-zero for device k the call never
\* returns a program, the converter's output file is never read into the
\* native-IR slot, and the call returns NULL with an error code (the
\* process is not ended instead).
C15_ConverterFailureReported ==
  \A k \in Indices :
    Has(<<"run_command", k, "nonzero">>) =>
      /\ ret # "program"
      /\ \A n \in 1..Len(trace) :
           ~(trace[n][1] = "read_file" /\ trace[n][2] = k)
      /\ ~Has(<<"done", k, "spirv">>)
      /\ ~Crashed
      /\ Returned => /\ ret = NULL
                     /\ errcode \in ErrorCodes
                     /\ errcode_ret \in {NULL, errcode}

\* C16: for a device taken by the packed branch the steps happen in the
\* order copy of the blob, build hash, cache directory, deserialization,
\* load of the cached IR if present, status success.  A cache-directory
\* failure (build-failure) prevents the deserialization and all later
\* steps; a deserialization failure (invalid-binary) prevents the cached-IR
\* load and the status write; a missing cached IR is no error: the device
\* completes with an empty native-IR slot and status success.
Pos(e) == CHOOSE n \in 1..Len(trace) : trace[n] = e
Precedes(a, b) == Has(b) => (Has(a) /\ Pos(a) < Pos(b))
InOrder(a, b) == (Has(a) /\ Has(b)) => Pos(a) < Pos(b)

C16_PackedStepsInOrder ==
  \A k \in Indices :
    Has(<<"branch", k, "packed">>) =>
      /\ Precedes(<<"alloc", k, "pocl_binaries">>, <<"buildhash", k, "set">>)
      /\ \A c \in {"ok", "fail"} :
           Precedes(<<"buildhash", k, "set">>, <<"cachedir", k, c>>)
      /\ \A d \in {"ok", "fail"} :
           Precedes(<<"cachedir", k, "ok">>, <<"deserialize", k, d>>)
      /\ \A x \in {"yes", "no"} :
           Precedes(<<"deserialize", k, "ok">>, <<"exists", k, x>>)
      /\ Precedes(<<"exists", k, "yes">>, <<"read_file", k, "cached">>)
      /\ Precedes(<<"read_file", k, "cached">>, <<"alloc", k, "binaries">>)
      /\ Has(<<"status", k, CL_SUCCESS>>) =>
           \E x \in {"yes", "no"} :
             /\ Has(<<"exists", k, x>>)
             /\ Pos(<<"exists", k, x>>) < Pos(<<"status", k, CL_SUCCESS>>)
      /\ InOrder(<<"read_file", k, "cached">>, <<"status", k, CL_SUCCESS>>)
      /\ Has(<<"done", k, "packed">>) =>
           /\ StepAt("exists", k)
           /\ ~binary_status.null =>
                /\ Has(<<"status", k, CL_SUCCESS>>)
                /\ At(binary_status, k) = CL_SUCCESS
      /\ Has(<<"cachedir", k, "fail">>) =>
           /\ errcode = CL_BUILD_PROGRAM_FAILURE
           /\ ~StepAt("deserialize", k) /\ ~StepAt("exists", k)
           /\ ~StepAt("read_file", k) /\ ~StepAt("status", k)
           /\ ~StepAt("done", k)
           /\ ~binary_status.null => At(binary_status, k) = "unset"
      /\ Has(<<"deserialize", k, "fail">>) =>
           /\ errcode = CL_INVALID_BINARY
           /\ ~StepAt("exists", k) /\ ~StepAt("read_file", k)
           /\ ~StepAt("status", k) /\ ~StepAt("done", k)
           /\ ~binary_status.null => At(binary_status, k) = "unset"
      /\ Has(<<"exists", k, "no">>) =>
           /\ Has(<<"done", k, "packed">>)
           /\ ~StepAt("read_file", k)
           /\ ProgramLive => At(program.binaries, k) = NullSlot

\* a packed binary without cached IR, then one whose deserialization fails
C16_Witness ==
  /\ Returned
  /\ Has(<<"exists", 0, "no">>)
  /\ Has(<<"done", 0, "packed">>)
  /\ Has(<<"deserialize", 1, "fail">>)
  /\ ~binary_status.null
  /\ At(binary_status, 0) = CL_SUCCESS
  /\ errcode_ret = CL_INVALID_BINARY

\* C17 as stated: a caller-contract violation (NULL context, NULL or empty
\* device list, bad lengths / binaries in non-empty mode, duplicated device,
\* foreign device) is detected before any allocation: no allocation of the
\* resolved device list, the program object or an array precedes the
\* detection, and nothing is allocated at return.
ContractCodes == {CL_INVALID_CONTEXT, CL_INVALID_VALUE, CL_INVALID_DEVICE}
ContractViolationDetected ==
  pc \in {"ERROR", "returned"} /\ errcode \in ContractCodes
Allocations == {trace[n][3] : n \in {m \in 1..Len(trace) :
                                       trace[m][1] = "alloc"}}

C17_ViolationsBeforeAnyAllocation ==
  ContractViolationDetected =>
    /\ Allocations = {}
    /\ Returned => (heap = {} /\ ret = NULL)

\* C17 amended: a caller-contract violation is detected before the program
\* object or any of its arrays is allocated; NULL arguments, bad lengths /
\* binaries and a duplicated context device are detected before any
\* allocation at all, a foreign device after the resolved device list was
\* allocated, which is freed before the return.  Nothing is allocated at
\* return.
C17_ViolationsBeforeProgramAllocation ==
  ContractViolationDetected =>
    /\ Allocations \subseteq {"unique_devlist"}
    /\ Allocations # {} =>
         /\ errcode = CL_INVALID_DEVICE
         /\ \E d \in CallerRoots : d \notin Range(ContextDevices)
    /\ errcode \in {CL_INVALID_CONTEXT, CL_INVALID_VALUE} => heap = {}
    /\ program.ptr = UNINIT
    /\ Returned => /\ heap = {}
                   /\ unique_devlist.null
                   /\ FailsWith(errcode)

\* a foreign device behind a context device: found after the resolution
C17_Witness ==
  /\ Returned
  /\ errcode_ret = CL_INVALID_DEVICE
  /\ Allocations = {"unique_devlist"}
  /\ heap = {}
  /\ At(caller_devices, 0) = "R1"
  /\ At(caller_devices, 1) = "F"

\* C18: in every successful call the blob stored into slot k of the
\* program (native-IR or packed) is a blob the caller supplied at a position
\* whose device resolves to the program's device k, also when the
\* resolution shortened or shifted the device list; and the device of every
\* blob the caller supplied is a device of the program.
StoredFor(s, k) ==
  (s.id # 0) =>
    /\ s.id \in 1..caller_num_devices
    /\ RealDev(At(caller_devices, s.id - 1)) = At(program.devices, k)

C18_BlobStoredForItsDevice ==
  (Returned /\ ret = "program" /\ ~binaries.null) =>
    /\ \A k \in 0..(program.num_devices - 1) :
         /\ StoredFor(At(program.binaries, k), k)
         /\ StoredFor(At(program.pocl_binaries, k), k)
    /\ \A j \in 0..(caller_num_devices - 1) :
         RealDev(At(caller_devices, j)) \in Range(program.devices.elems)

\* C19: the loop never reads lengths[i] or binaries[i] through a NULL
\* array: whatever the mode and the NULL-ness of lengths and binaries, the
\* call takes the shortcut, fails with invalid-value before the loop, or
\* enters the loop with both arrays non-NULL.
C19_LoopArraysNotNull ==
  /\ pc = "loop" => (~lengths.null /\ ~binaries.null)
  /\ \A k \in Indices :
       Has(<<"null_read", k, "loop">>) => (~lengths.null /\ ~binaries.null)

\* C20: the devices are processed one at a time in the order of the
\* resolved list; when the call fails at resolved device k no blob of an
\* index above k has been classified, copied or converted, the status slots
\* above k are as they were at entry, and the only status slots written are
\* among 0..k.
C20_SequentialStatusFrame ==
  /\ \A n \in 1..Len(trace) :
       trace[n][1] = "branch" =>
         \A m \in 1..(n - 1) :
           trace[m][1] = "branch" => trace[m][2] < trace[n][2]
  /\ \A k \in Indices :
       StepAt("fail", k) =>
         /\ \A n \in 1..Len(trace) : trace[n][2] <= k
         /\ \A j \in 0..(k - 1) : DoneAt(j)
         /\ ~binary_status.null =>
              \A j \in (k + 1)..(Len(binary_status.elems) - 1) :
                At(binary_status, j) = "unset"
         /\ ProgramLive =>
              \A j \in (k + 1)..(num_devices - 1) :
                /\ At(program.binaries, j) = NullSlot
                /\ At(program.pocl_binaries, j) = NullSlot

\* the first of two devices fails, the second blob is well-formed
C20_Witness ==
  /\ Returned
  /\ FailedAt(0)
  /\ num_devices = 2
  /\ ~binary_status.null
  /\ At(binary_status, 0) = CL_INVALID_BINARY
  /\ At(binary_status, 1) = "unset"
  /\ HasBCMarker(At(binaries, 1))

====
